---- MODULE Spec2Model ----
\* Model of the flag-set type generated by `flags!` (rialight_util/src/flags.rs):
\* a client holds two values `a` and `b` of one generated type and evaluates, one
\* expression at a time, the constructors, queries, set operations and operators
\* the module documents. `ret` is the value of the expression being evaluated.
EXTENDS Integers, Sequences, FiniteSets, TLC

\* ----------------------------------------------------------------- bounds
\* Width of the representation integer (the documentation uses u32).
Width == 4
\* Longest sequence handed to Extend / FromIterator.
MaxItems == 3

VARIABLES decl, a, b, ret
vars == <<decl, a, b, ret>>

\* ------------------------------------------------- representation integer
\* Every value of the representation type.
Repr == 0 .. (2^Width - 1)

RECURSIVE BitAnd(_, _)
\* `&` of the representation type.
BitAnd(x, y) ==
    IF x = 0 \/ y = 0 THEN 0
    ELSE (x % 2) * (y % 2) + 2 * BitAnd(x \div 2, y \div 2)

RECURSIVE BitOr(_, _)
\* `|` of the representation type.
BitOr(x, y) ==
    IF x = 0 THEN y
    ELSE IF y = 0 THEN x
    ELSE (IF x % 2 = 1 \/ y % 2 = 1 THEN 1 ELSE 0) + 2 * BitOr(x \div 2, y \div 2)

RECURSIVE BitXor(_, _)
\* `^` of the representation type.
BitXor(x, y) ==
    IF x = 0 THEN y
    ELSE IF y = 0 THEN x
    ELSE (((x % 2) + (y % 2)) % 2) + 2 * BitXor(x \div 2, y \div 2)

\* `!` of the representation type: flips all Width bits.
BitNot(x) == (2^Width - 1) - x

\* ------------------------------------------------------ declaration tables
\* flags! { struct Flags: u32 { A, B, C, ABC } }
FlagsABC ==
    << [name |-> "A", bits |-> 1], [name |-> "B", bits |-> 2],
       [name |-> "C", bits |-> 4], [name |-> "ABC", bits |-> BitOr(BitOr(1, 2), 4)] >>

\* flags! { struct Flags: u32 { A, B } }
FlagsAB == << [name |-> "A", bits |-> 1], [name |-> "B", bits |-> 2] >>

\* flags! { struct Flags: u32 { NONE, SOME } }
FlagsZero == << [name |-> "NONE", bits |-> 0], [name |-> "SOME", bits |-> 1] >>

Tables == {FlagsABC, FlagsAB, FlagsZero}

\* ------------------------------------------------------------- the methods
\* `empty`: an empty set of flags.
empty == 0

RECURSIVE AllFrom(_)
AllFrom(i) == IF i > Len(decl) THEN 0 ELSE BitOr(decl[i].bits, AllFrom(i + 1))

\* `all`: the set of all defined flags.
all == AllFrom(1)

\* `bits`: the raw value of the flags currently stored.
bits(v) == v

from_bits_lenient(raw) == [ok |-> TRUE, bits |-> raw]

\* `from_bits`: convert from the underlying bit representation, unless that
\* representation contains bits that do not correspond to a defined flag.
from_bits(raw) ==
    IF BitAnd(raw, BitNot(all)) = 0
    THEN [ok |-> TRUE, bits |-> raw]
    ELSE [ok |-> FALSE, bits |-> 0]

from_bits_truncate_keep(raw) == raw

\* `from_bits_truncate`: drops any bits that do not correspond to defined flags.
from_bits_truncate(raw) == BitAnd(raw, all)

\* `from_bits_unchecked`: keeps all bits.
from_bits_unchecked(raw) == raw

\* `is_empty`: true if no flags are currently stored.
is_empty(v) == bits(v) = 0

is_all_superset(v) == BitOr(all, v) = v

\* `is_all`: true if currently set flags exactly equal all defined flags.
is_all(v) == v = all

\* `intersects`: true if there are flags common to both self and other.
intersects(v, other) == BitAnd(v, other) /= 0

contains_some(v, other) == BitAnd(v, other) /= 0

\* `contains`: true if all of the flags in other are contained within self.
contains(v, other) == BitAnd(v, other) = other

\* `intersection`: only the flags present in both.
intersection(v, other) == BitAnd(v, other)

\* `union`: any flags present in either.
union(v, other) == BitOr(v, other)

difference_xor(v, other) == BitXor(v, other)

\* `difference`: all flags present in self without any of the flags in other.
difference(v, other) == BitAnd(v, BitNot(other))

\* `symmetric_difference`: flags present in either, but not both.
symmetric_difference(v, other) == BitXor(v, other)

complement_of_clipped(v) == BitNot(BitAnd(v, all))

complement_xor_all(v) == BitXor(v, all)

complement_unmasked(v) == BitNot(v)

\* `complement`: all flags which are not set in self, but which are allowed
\* for this type.
complement(v) == BitAnd(BitNot(v), all)

\* `insert`: inserts the specified flags in-place (the new receiver).
insert(v, other) == BitOr(v, other)

\* `remove`: removes the specified flags in-place (the new receiver).
remove(v, other) == BitAnd(v, BitNot(other))

\* `toggle`: inserted if not present, removed if they are (the new receiver).
toggle(v, other) == BitXor(v, other)

\* `set`: inserts or removes the specified flags depending on the passed value.
set(v, other, value) == IF value THEN insert(v, other) ELSE remove(v, other)

extend_last(v, items) == IF items = <<>> THEN v ELSE insert(v, items[Len(items)])

RECURSIVE extend(_, _)
\* `Extend`: adds the union of the instances iterated over (the new receiver).
extend(v, items) ==
    IF items = <<>> THEN v
    ELSE extend(insert(v, Head(items)), Tail(items))

\* `FromIterator`: calculates the union.
from_iter(items) == extend(empty, items)

\* ------------------------------------------------------ the client program
\* No expression is being evaluated.
IdleRet ==
    [op |-> "idle", kind |-> "idle", a0 |-> 0, b0 |-> 0, raw |-> 0, on |-> FALSE,
     items |-> <<>>, bits |-> 0, flag |-> FALSE]

Idle == ret.op = "idle"

\* The value of an expression: the operation, the values of a and b and the
\* arguments it was evaluated with, and its result (bits for a flag value,
\* flag for a boolean).
Eval(op, kind) == [IdleRet EXCEPT !.op = op, !.kind = kind, !.a0 = a, !.b0 = b]

\* The sequences an iterator of flag values can yield.
RECURSIVE SeqsUpTo(_, _)
SeqsUpTo(S, n) ==
    IF n = 0 THEN {<<>>}
    ELSE LET shorter == SeqsUpTo(S, n - 1)
         IN  shorter \cup {Append(q, x) : q \in shorter, x \in S}

Iterables == SeqsUpTo({a, b, empty}, MaxItems)

\* A freshly declared type; both values start out as empty().
Init ==
    /\ decl \in Tables
    /\ a = empty
    /\ b = empty
    /\ ret = IdleRet

\* Flags::empty()
Empty ==
    /\ Idle
    /\ ret' = [Eval("empty", "flags") EXCEPT !.bits = empty]
    /\ UNCHANGED <<decl, a, b>>

\* Flags::all()
All ==
    /\ Idle
    /\ ret' = [Eval("all", "flags") EXCEPT !.bits = all]
    /\ UNCHANGED <<decl, a, b>>

\* Flags::A, Flags::B, ...: a declared constant
Const(i) ==
    /\ Idle
    /\ ret' = [Eval("const", "flags") EXCEPT !.raw = i, !.bits = decl[i].bits]
    /\ UNCHANGED <<decl, a, b>>

\* Flags::from_bits(raw)
FromBits(raw) ==
    /\ Idle
    /\ LET r == from_bits(raw)
       IN  ret' = [Eval("from_bits", IF r.ok THEN "some" ELSE "none")
                     EXCEPT !.raw = raw, !.bits = r.bits]
    /\ UNCHANGED <<decl, a, b>>

\* Flags::from_bits_truncate(raw)
FromBitsTruncate(raw) ==
    /\ Idle
    /\ ret' = [Eval("from_bits_truncate", "flags")
                 EXCEPT !.raw = raw, !.bits = from_bits_truncate(raw)]
    /\ UNCHANGED <<decl, a, b>>

\* unsafe { Flags::from_bits_unchecked(raw) }
FromBitsUnchecked(raw) ==
    /\ Idle
    /\ ret' = [Eval("from_bits_unchecked", "flags")
                 EXCEPT !.raw = raw, !.bits = from_bits_unchecked(raw)]
    /\ UNCHANGED <<decl, a, b>>

\* a.bits()
Bits ==
    /\ Idle
    /\ ret' = [Eval("bits", "int") EXCEPT !.bits = bits(a)]
    /\ UNCHANGED <<decl, a, b>>

\* a.is_empty()
IsEmpty ==
    /\ Idle
    /\ ret' = [Eval("is_empty", "bool") EXCEPT !.flag = is_empty(a)]
    /\ UNCHANGED <<decl, a, b>>

\* a.is_all()
IsAll ==
    /\ Idle
    /\ ret' = [Eval("is_all", "bool") EXCEPT !.flag = is_all(a)]
    /\ UNCHANGED <<decl, a, b>>

\* a.intersects(b)
Intersects ==
    /\ Idle
    /\ ret' = [Eval("intersects", "bool") EXCEPT !.flag = intersects(a, b)]
    /\ UNCHANGED <<decl, a, b>>

\* a.contains(b)
Contains ==
    /\ Idle
    /\ ret' = [Eval("contains", "bool") EXCEPT !.flag = contains(a, b)]
    /\ UNCHANGED <<decl, a, b>>

\* a.union(b)
Union ==
    /\ Idle
    /\ ret' = [Eval("union", "flags") EXCEPT !.bits = union(a, b)]
    /\ UNCHANGED <<decl, a, b>>

\* a.intersection(b)
Intersection ==
    /\ Idle
    /\ ret' = [Eval("intersection", "flags") EXCEPT !.bits = intersection(a, b)]
    /\ UNCHANGED <<decl, a, b>>

\* a.difference(b)
Difference ==
    /\ Idle
    /\ ret' = [Eval("difference", "flags") EXCEPT !.bits = difference(a, b)]
    /\ UNCHANGED <<decl, a, b>>

\* a.symmetric_difference(b)
SymmetricDifference ==
    /\ Idle
    /\ ret' = [Eval("symmetric_difference", "flags")
                 EXCEPT !.bits = symmetric_difference(a, b)]
    /\ UNCHANGED <<decl, a, b>>

\* a.complement()
Complement ==
    /\ Idle
    /\ ret' = [Eval("complement", "flags") EXCEPT !.bits = complement(a)]
    /\ UNCHANGED <<decl, a, b>>

\* a | b  (BitOr: union)
BitOrOp ==
    /\ Idle
    /\ ret' = [Eval("bitor", "flags") EXCEPT !.bits = union(a, b)]
    /\ UNCHANGED <<decl, a, b>>

\* a & b  (BitAnd: intersection)
BitAndOp ==
    /\ Idle
    /\ ret' = [Eval("bitand", "flags") EXCEPT !.bits = intersection(a, b)]
    /\ UNCHANGED <<decl, a, b>>

\* a ^ b  (BitXor: toggle)
BitXorOp ==
    /\ Idle
    /\ ret' = [Eval("bitxor", "flags") EXCEPT !.bits = toggle(a, b)]
    /\ UNCHANGED <<decl, a, b>>

\* a - b  (Sub: set difference)
SubOp ==
    /\ Idle
    /\ ret' = [Eval("sub", "flags") EXCEPT !.bits = difference(a, b)]
    /\ UNCHANGED <<decl, a, b>>

\* !a  (Not: set complement)
NotOp ==
    /\ Idle
    /\ ret' = [Eval("not", "flags") EXCEPT !.bits = complement(a)]
    /\ UNCHANGED <<decl, a, b>>

\* !(!a)
NotNotOp ==
    /\ Idle
    /\ ret' = [Eval("not_not", "flags") EXCEPT !.bits = complement(complement(a))]
    /\ UNCHANGED <<decl, a, b>>

\* a |= b
BitOrAssign ==
    /\ Idle
    /\ a' = union(a, b)
    /\ ret' = Eval("bitor_assign", "unit")
    /\ UNCHANGED <<decl, b>>

\* a &= b
BitAndAssign ==
    /\ Idle
    /\ a' = intersection(a, b)
    /\ ret' = Eval("bitand_assign", "unit")
    /\ UNCHANGED <<decl, b>>

\* a ^= b
BitXorAssign ==
    /\ Idle
    /\ a' = toggle(a, b)
    /\ ret' = Eval("bitxor_assign", "unit")
    /\ UNCHANGED <<decl, b>>

\* a -= b
SubAssign ==
    /\ Idle
    /\ a' = difference(a, b)
    /\ ret' = Eval("sub_assign", "unit")
    /\ UNCHANGED <<decl, b>>

\* a.insert(b)
Insert ==
    /\ Idle
    /\ a' = insert(a, b)
    /\ ret' = Eval("insert", "unit")
    /\ UNCHANGED <<decl, b>>

\* a.remove(b)
Remove ==
    /\ Idle
    /\ a' = remove(a, b)
    /\ ret' = Eval("remove", "unit")
    /\ UNCHANGED <<decl, b>>

\* a.toggle(b)
Toggle ==
    /\ Idle
    /\ a' = toggle(a, b)
    /\ ret' = Eval("toggle", "unit")
    /\ UNCHANGED <<decl, b>>

\* a.set(b, value)
Set(value) ==
    /\ Idle
    /\ a' = set(a, b, value)
    /\ ret' = [Eval("set", "unit") EXCEPT !.on = value]
    /\ UNCHANGED <<decl, b>>

\* a.extend(items)
Extend(items) ==
    /\ Idle
    /\ a' = extend(a, items)
    /\ ret' = [Eval("extend", "unit") EXCEPT !.items = items]
    /\ UNCHANGED <<decl, b>>

\* items.into_iter().collect::<Flags>()
FromIterator(items) ==
    /\ Idle
    /\ ret' = [Eval("from_iter", "flags") EXCEPT !.items = items, !.bits = from_iter(items)]
    /\ UNCHANGED <<decl, a, b>>

\* let a = <expression>  (an Option is bound only when it is Some)
AssignA ==
    /\ ret.kind \in {"flags", "some"}
    /\ a' = ret.bits
    /\ ret' = IdleRet
    /\ UNCHANGED <<decl, b>>

\* let b = <expression>
AssignB ==
    /\ ret.kind \in {"flags", "some"}
    /\ b' = ret.bits
    /\ ret' = IdleRet
    /\ UNCHANGED <<decl, a>>

\* The value of the expression is used (asserted on) and dropped.
Discard ==
    /\ ~Idle
    /\ ret' = IdleRet
    /\ UNCHANGED <<decl, a, b>>

\* Every operation except the unchecked constructor.
NextSafe ==
    \/ Empty
    \/ All
    \/ \E i \in 1 .. Len(decl) : Const(i)
    \/ \E raw \in Repr : FromBits(raw)
    \/ \E raw \in Repr : FromBitsTruncate(raw)
    \/ Bits
    \/ IsEmpty
    \/ IsAll
    \/ Intersects
    \/ Contains
    \/ Union
    \/ Intersection
    \/ Difference
    \/ SymmetricDifference
    \/ Complement
    \/ BitOrOp
    \/ BitAndOp
    \/ BitXorOp
    \/ SubOp
    \/ NotOp
    \/ NotNotOp
    \/ BitOrAssign
    \/ BitAndAssign
    \/ BitXorAssign
    \/ SubAssign
    \/ Insert
    \/ Remove
    \/ Toggle
    \/ \E value \in BOOLEAN : Set(value)
    \/ \E items \in Iterables : Extend(items)
    \/ \E items \in Iterables : FromIterator(items)
    \/ AssignA
    \/ AssignB
    \/ Discard

Next ==
    \/ NextSafe
    \/ \E raw \in Repr : FromBitsUnchecked(raw)

Spec == Init /\ [][Next]_vars

\* A client that never calls from_bits_unchecked.
SpecSafe == Init /\ [][NextSafe]_vars

\* ------------------------------------------------------------ type invariant
TypeOK ==
    /\ decl \in Tables
    /\ a \in Repr
    /\ b \in Repr
    /\ ret.bits \in Repr

\* ------------------------------------------------------ reference notions
\* The positions of the bits that are set in n.
BitSet(n) == {i \in 0 .. (Width - 1) : (n \div (2^i)) % 2 = 1}

\* The positions covered by some declared flag.
MaskSet == UNION {BitSet(decl[i].bits) : i \in 1 .. Len(decl)}

InMask(v) == v \in Repr /\ BitSet(v) \subseteq MaskSet

ItemBits(items) == UNION {BitSet(items[i]) : i \in 1 .. Len(items)}

\* ------------------------------------------------------------------ claims

\* C1: from_bits(r) succeeds exactly when r has no bit outside the all-flags
\* mask, and then the returned value's bits() is r; otherwise it returns None;
\* in both cases the existing values a and b are left as they were.
C1_FromBitsStrict ==
    ret.op = "from_bits" =>
        /\ ret.kind \in {"some", "none"}
        /\ (ret.kind = "some") <=> (BitSet(ret.raw) \subseteq MaskSet)
        /\ ret.kind = "some" => bits(ret.bits) = ret.raw
        /\ a = ret.a0 /\ b = ret.b0

C1_Witness ==
    /\ ret.op = "from_bits"
    /\ ret.kind = "none"
    /\ ~(BitSet(ret.raw) \subseteq MaskSet)
    /\ a /= empty

\* C2: from_bits_truncate(r) always yields a value whose bits() is r restricted
\* to the all-flags mask; it agrees with from_bits(r) whenever that succeeds,
\* and with A, B, C, ABC declared from_bits_truncate(0b1001) is A.
C2_FromBitsTruncate ==
    ret.op = "from_bits_truncate" =>
        /\ ret.kind = "flags"
        /\ ret.bits \in Repr
        /\ BitSet(bits(ret.bits)) = BitSet(ret.raw) \cap MaskSet
        /\ from_bits(ret.raw).ok => ret.bits = from_bits(ret.raw).bits
        /\ (decl = FlagsABC /\ ret.raw = 9) => ret.bits = FlagsABC[1].bits

C2_Witness ==
    /\ decl = FlagsABC
    /\ ret.op = "from_bits_truncate"
    /\ ret.raw = 9

\* C3: the complement of any value a, in-mask or not, has exactly the declared
\* bits that a lacks, so it never has a bit outside the declared flags; with
\* A, B, C declared !(B|C) is A.
C3_ComplementClipped ==
    ret.op \in {"not", "complement"} =>
        /\ ret.bits \in Repr
        /\ BitSet(ret.bits) = MaskSet \ BitSet(ret.a0)
        /\ (decl = FlagsABC /\ ret.a0 = 6) => ret.bits = FlagsABC[1].bits

C3_Witness ==
    /\ ret.op = "not"
    /\ ~InMask(ret.a0)
    /\ ret.bits /= 0

\* C4 as stated: complementing twice gives back a, for every value a.
C4_DoubleComplementIdentity ==
    ret.op = "not_not" => ret.bits = ret.a0

\* C4 as amended: complementing twice gives a restricted to the all-flags mask,
\* which is a itself exactly when a has no bit outside the mask.
C4_DoubleComplementClips ==
    ret.op = "not_not" =>
        /\ ret.bits \in Repr
        /\ BitSet(ret.bits) = BitSet(ret.a0) \cap MaskSet
        /\ (ret.bits = ret.a0) <=> InMask(ret.a0)

C4_Witness ==
    /\ ret.op = "not_not"
    /\ ~InMask(ret.a0)
    /\ ret.bits /= 0

\* C5: when a flag with bit pattern 0 is declared, every value contains it,
\* and that flag and empty() are both reported empty.
C5_ZeroFlag ==
    \A i \in 1 .. Len(decl) :
        decl[i].bits = 0 =>
            /\ (ret.op = "contains" /\ ret.b0 = decl[i].bits) => ret.flag
            /\ (ret.op = "is_empty" /\ ret.a0 \in {decl[i].bits, empty}) => ret.flag

C5_Witness ==
    /\ decl = FlagsZero
    /\ ret.op = "contains"
    /\ ret.b0 = FlagsZero[1].bits
    /\ ret.a0 /= empty

\* C6: union, intersection, difference and symmetric difference return the
\* bitwise reference result on the operands' bits and leave both operands as
\* they were; with A, B, C, ABC declared, (A|C)|(B|C) is ABC, (A|C)&(B|C) is C
\* and (A|C)-(B|C) is A.
C6_BinaryOperators ==
    /\ ret.op \in {"bitor", "union", "bitand", "intersection", "sub", "difference",
                   "bitxor", "symmetric_difference"} =>
          /\ ret.bits \in Repr
          /\ a = ret.a0 /\ b = ret.b0
    /\ ret.op \in {"bitor", "union"} =>
          BitSet(ret.bits) = BitSet(ret.a0) \cup BitSet(ret.b0)
    /\ ret.op \in {"bitand", "intersection"} =>
          BitSet(ret.bits) = BitSet(ret.a0) \cap BitSet(ret.b0)
    /\ ret.op \in {"sub", "difference"} =>
          BitSet(ret.bits) = BitSet(ret.a0) \ BitSet(ret.b0)
    /\ ret.op \in {"bitxor", "symmetric_difference"} =>
          BitSet(ret.bits) = (BitSet(ret.a0) \cup BitSet(ret.b0))
                                 \ (BitSet(ret.a0) \cap BitSet(ret.b0))
    /\ (decl = FlagsABC /\ ret.a0 = 5 /\ ret.b0 = 6) =>
          /\ ret.op = "bitor" => ret.bits = FlagsABC[4].bits
          /\ ret.op = "bitand" => ret.bits = FlagsABC[3].bits
          /\ ret.op = "sub" => ret.bits = FlagsABC[1].bits

C6_Witness ==
    /\ decl = FlagsABC
    /\ ret.op = "sub"
    /\ ret.a0 = 5
    /\ ret.b0 = 6

\* C8: collecting a sequence of values yields the OR of its elements, whatever
\* their order and repetitions, and empty() for the empty sequence; extending a
\* receiver leaves it equal to itself OR the elements; collecting
\* [A, B, empty()] yields A|B.
C8_ExtendFromIterator ==
    /\ ret.op = "from_iter" =>
          /\ ret.bits \in Repr
          /\ BitSet(ret.bits) = ItemBits(ret.items)
          /\ ret.items = <<>> => ret.bits = empty
          /\ (decl = FlagsABC /\ ret.items = <<1, 2, 0>>) => ret.bits = 3
    /\ ret.op = "extend" =>
          /\ a \in Repr
          /\ BitSet(a) = BitSet(ret.a0) \cup ItemBits(ret.items)

C8_Witness ==
    /\ decl = FlagsABC
    /\ ret.op = "from_iter"
    /\ ret.items = <<1, 2, 0>>

C10_MaskInvariant ==
    /\ InMask(a)
    /\ InMask(b)
    /\ ret.kind \in {"flags", "some"} => InMask(ret.bits)
    /\ from_bits(bits(a)) = [ok |-> TRUE, bits |-> a]
    /\ from_bits(bits(b)) = [ok |-> TRUE, bits |-> b]

C10_Witness ==
    /\ ret.op = "not"
    /\ ret.a0 /= empty
    /\ ret.bits /= empty
    /\ b /= empty

====
